---- MODULE Spec2Model ----
(***************************************************************************)
(* Asynchronous XML ingestion: the job persistence store                   *)
(* (backend/app/services/job_persistence.py) and the orchestrator          *)
(* (backend/app/services/async_processor.py) that drives parsing, chunk    *)
(* storage and graph population, with cancel, resume and process restart.  *)
(*                                                                         *)
(* Progress fractions are integers in units of 1/10000 (1.0 = 10000,       *)
(* 0.05 = 500); divisions are floor divisions.  The store keeps            *)
(* progress_percent = progress * 100, as update_job_progress does.         *)
(*                                                                         *)
(* Scheduling: a pipeline started by start_processing is an asyncio task   *)
(* on the event loop (kind "task"); a pipeline started by resume_job runs  *)
(* _process_sync on a pool thread (kind "thread").  Code on the event loop *)
(* runs without interruption by other event-loop code until it awaits      *)
(* something that really suspends (run_in_executor, a graph-store call);   *)
(* `loop` names the task that holds the event loop, 0 when it is free.     *)
(* Pool threads interleave with everything, one shared access per step.    *)
(*                                                                         *)
(* Further parts: the progress feed (stream_progress and the callbacks     *)
(* _update_progress delivers to), the executor's worker pool, and the XML  *)
(* processor (backend/app/services/xml_processor.py): text chunking and    *)
(* process_file over the sections of one file.                             *)
(***************************************************************************)
EXTENDS Integers, Sequences, FiniteSets, TLC

\* ---- bounds of the model ----
MaxJobs == 2
MaxRuns == 2
MaxChunks == 2
MaxRestarts == 1
MaxSubs == 1
MaxRequests == 11
MaxChunkSize == 4
MaxTokens == 9
MaxSections == 2
MaxReqs == 2
MaxIterations == 5

\* ---- program constants ----
batch_size == 32
MAX_WORKERS == 10
chunk_size_ge == 128
chunk_size_le == 2048
chunk_overlap_ge == 0
chunk_overlap_le == 512

VARIABLES
    jobs,            \* the jobs table: job id -> row
    uuid,            \* number of job ids issued so far (uuid4 never repeats)
    active_jobs,     \* AsyncXMLProcessor._active_jobs (its keys)
    cancelled_jobs,  \* AsyncXMLProcessor._cancelled_jobs
    runs,            \* pipeline executions: run id -> frame of _process_async / _process_sync
    next_run,        \* number of pipeline executions launched so far
    loop,            \* the task holding the event loop, 0 when free
    phase,           \* "starting" (process booting) or "serving"
    restarts,        \* number of process restarts so far
    cancelHist,      \* history: job -> "none" | "cancelled" (cancel_job returned true, no resume_job issued since) | "reissued"
    interrupted,     \* history: jobs whose status was running when the process last restarted, not resumed since
    marked,          \* history: the <<job id, chunk id>> pairs of the mark_chunk_completed calls that have returned
    progress_callbacks,  \* AsyncXMLProcessor._progress_callbacks: job -> list of subscriptions (a missing key is the empty list)
    subs,            \* the stream_progress generators: subscription -> frame
    emitted,         \* history: job -> number of progress events emitted for it
    pool,            \* AsyncXMLProcessor._executor: the worker pool
    xp,              \* a DocBookXMLProcessor object
    stored,          \* history: the <<job id, chunk id>> pairs of the chunks that upsert_points calls of the job's executions have stored
    sent,            \* history: the <<job id, "node" or "rel", index>> triples of the graph-store calls made by the job's executions
    deleted,         \* history: job -> n, the number of delete_job calls that returned true, and since, the calls made for the job after the first of them (update_job_progress and mark_chunk_completed by its executions, delete_job)
    written          \* history: job -> the progress fraction last written to its record by update_job_progress

vars == <<jobs, uuid, active_jobs, cancelled_jobs, runs, next_run, loop,
          phase, restarts, cancelHist, interrupted, marked,
          progress_callbacks, subs, emitted, pool, xp, stored, sent, deleted,
          written>>

JobIds == 1..MaxJobs
RunIds == 1..MaxRuns

None == "None"
Omitted == <<>>
Some(v) == <<v>>

Min(a, b) == IF a < b THEN a ELSE b

SeqToSet(s) == {s[k] : k \in 1..Len(s)}

Contains(s, x) == \E k \in 1..Len(s) : s[k] = x

RECURSIVE SelectSeqBy(_, _)
\* the subsequence of s whose elements are not in the set `drop`
SelectSeqBy(s, drop) ==
    IF s = <<>> THEN <<>>
    ELSE IF Head(s) \in drop THEN SelectSeqBy(Tail(s), drop)
         ELSE <<Head(s)>> \o SelectSeqBy(Tail(s), drop)

\* ---- the extraction result of a file ----
\* A file is identified by the number of chunks its extraction yields: one
\* entity whose content splits into chunks 1..n, in document order, and one
\* relationship; the empty file yields nothing.
Files == 0..MaxChunks

RECURSIVE Upto(_)
Upto(n) == IF n = 0 THEN <<>> ELSE Upto(n - 1) \o <<n>>

result_chunks(file) == Upto(file)
result_entities(file) == IF file > 0 THEN 1 ELSE 0
result_relationships(file) == IF file > 0 THEN 1 ELSE 0

\* the clock: datetime.utcnow(), one tick per process lifetime
utcnow == restarts + 1

\* ---- JobPersistenceService ----
create_job(J, job_id, file_path, options) ==
    J @@ (job_id :> [status |-> "pending",
                     file_path |-> file_path,
                     total_chunks |-> 0,
                     completed_chunks |-> 0,
                     progress_percent |-> 0,
                     error_message |-> None,
                     options |-> options,
                     completed_chunk_ids |-> <<>>,
                     created_at |-> utcnow,
                     started_at |-> 0,
                     completed_at |-> 0])

\* 128-149: the JobRecord of a row: every column under its name, and
\* `progress` taken from the column progress_percent
_row_to_job_record(row) ==
    [f \in DOMAIN row \cup {"progress"} |->
        IF f = "progress" THEN row.progress_percent ELSE row[f]]

get_job(J, job_id) == IF job_id \in DOMAIN J THEN <<_row_to_job_record(J[job_id])>> ELSE <<>>

update_job_progress_overwriting(J, job_id, status, progress, total_chunks, completed_chunks, error_message) ==
    IF job_id \notin DOMAIN J THEN J
    ELSE [J EXCEPT ![job_id] =
            [@ EXCEPT
               !.status = IF status # Omitted THEN status[1] ELSE @,
               !.progress_percent = IF progress # Omitted THEN progress[1] * 100 ELSE @,
               !.total_chunks = IF total_chunks # Omitted THEN total_chunks[1] ELSE @,
               !.completed_chunks = IF completed_chunks # Omitted THEN completed_chunks[1] ELSE @,
               !.error_message = IF error_message # Omitted THEN error_message[1] ELSE None]]

\* one UPDATE statement; an argument that is Omitted leaves its column alone
update_job_progress(J, job_id, status, progress, total_chunks, completed_chunks, error_message) ==
    IF job_id \notin DOMAIN J THEN J
    ELSE [J EXCEPT ![job_id] =
            [@ EXCEPT
               !.status = IF status # Omitted THEN status[1] ELSE @,
               !.started_at = IF status = Some("running") /\ @ = 0 THEN utcnow ELSE @,
               !.completed_at = IF status # Omitted /\ status[1] \in {"completed", "failed", "cancelled"}
                                THEN utcnow ELSE @,
               !.progress_percent = IF progress # Omitted THEN progress[1] * 100 ELSE @,
               !.total_chunks = IF total_chunks # Omitted THEN total_chunks[1] ELSE @,
               !.completed_chunks = IF completed_chunks # Omitted THEN completed_chunks[1] ELSE @,
               !.error_message = IF error_message # Omitted THEN error_message[1] ELSE @]]

\* mark_chunk_completed is a SELECT followed, when the id is new, by an UPDATE
mark_chunk_select(J, job_id) ==
    IF job_id \in DOMAIN J THEN <<J[job_id].completed_chunk_ids>> ELSE <<>>

mark_chunk_always_update(current_ids, chunk_id) == TRUE

\* 327: if chunk_id not in current_ids
mark_chunk_needs_update(current_ids, chunk_id) == ~Contains(current_ids, chunk_id)

\* an UPDATE that would insert the row it does not find
mark_chunk_update_upserting(J, job_id, current_ids, chunk_id) ==
    IF job_id \notin DOMAIN J
    THEN [create_job(J, job_id, 0, [create_graph |-> FALSE])
             EXCEPT ![job_id].completed_chunk_ids = Append(current_ids, chunk_id)]
    ELSE [J EXCEPT ![job_id].completed_chunk_ids = Append(current_ids, chunk_id)]

mark_chunk_update(J, job_id, current_ids, chunk_id) ==
    IF job_id \notin DOMAIN J THEN J
    ELSE [J EXCEPT ![job_id].completed_chunk_ids = Append(current_ids, chunk_id)]

\* the whole call when nothing runs in between
mark_chunk_completed(J, job_id, chunk_id) ==
    LET row == mark_chunk_select(J, job_id) IN
    IF row = <<>> THEN J
    ELSE IF mark_chunk_needs_update(row[1], chunk_id)
         THEN mark_chunk_update(J, job_id, row[1], chunk_id)
         ELSE J

\* 522-533: DELETE FROM jobs WHERE id = ?
_job_persistence_delete_job(J, job_id) == [j \in DOMAIN J \ {job_id} |-> J[j]]

get_resumable_jobs(J) == {j \in DOMAIN J : J[j].status = "resumable"}

mark_interrupted_jobs_resumable(J) ==
    [j \in DOMAIN J |-> IF J[j].status = "running"
                        THEN [J[j] EXCEPT !.status = "resumable"]
                        ELSE J[j]]

\* old: the jobs whose created_at lies before the retention cutoff
cleanup_old_jobs(J, old) ==
    LET gone == {j \in DOMAIN J : J[j].status \in {"completed", "failed"} /\ j \in old}
    IN [j \in DOMAIN J \ gone |-> J[j]]

\* ---- DocBookXMLProcessor: state ----
\* no processor has been constructed
NoProcessor ==
    [pc |-> "none",
     chunk_size |-> 0, chunk_overlap |-> 0,
     track_discontinued |-> TRUE,   \* __init__ 169: the default
     _entities |-> <<>>, _relationships |-> <<>>, _chunks |-> <<>>,
     file |-> <<>>,       \* history: the sections of the file read so far by the current process_file call
     tokens |-> 0,        \* history: the number of tokens of the text last given to _chunk_text
     start |-> 0,         \* _chunk_text: the window start of the while loop
     chunk_contents |-> <<>>,   \* _chunk_text: the windows taken so far
     reused |-> FALSE,    \* history: the current process_file call is not the first on this object
     result |-> <<>>]     \* the XMLProcessingResult last returned, as a list of one, else empty

\* ---- AsyncXMLProcessor: state ----
\* __init__ 100: ThreadPoolExecutor(max_workers=MAX_WORKERS), no thread started yet
EmptyPool ==
    [queue |-> <<>>,      \* the work queue: the kinds of the requests waiting, oldest first
     threads |-> 0,       \* worker threads started
     idle |-> 0,          \* the idle semaphore: workers waiting for work that no request has claimed
     looking |-> 0,       \* workers about to look into the queue
     blocked |-> 0,       \* workers waiting on the empty queue
     parsing |-> 0,       \* workers running _parse_xml_sync for _process_async
     sync_parsing |-> 0,  \* workers running _process_sync, in its extraction
     sync_storing |-> 0,  \* workers running _process_sync, past its extraction
     submitted |-> 0,     \* history: requests handed to the pool
     started |-> 0,       \* history: requests a worker has taken
     finished |-> 0]      \* history: requests run to their end

Init ==
    /\ jobs = <<>>
    /\ uuid = 0
    /\ active_jobs = {}
    /\ cancelled_jobs = {}
    /\ runs = <<>>
    /\ next_run = 0
    /\ loop = 0
    /\ phase = "starting"
    /\ restarts = 0
    /\ cancelHist = [j \in JobIds |-> "none"]
    /\ interrupted = {}
    /\ marked = {}
    /\ progress_callbacks = [j \in JobIds |-> <<>>]
    /\ subs = <<>>
    /\ emitted = [j \in JobIds |-> 0]
    /\ pool = EmptyPool
    /\ xp = NoProcessor
    /\ stored = {}
    /\ sent = {}
    /\ deleted = [j \in JobIds |-> [n |-> 0, since |-> {}]]
    /\ written = [j \in JobIds |-> 0]

\* the frame of a pipeline execution at its first statement
NewRun(job_id, kind, file_path, options) ==
    [job |-> job_id, kind |-> kind, pc |-> "start",
     file_path |-> file_path, options |-> options,
     parsed |-> FALSE,            \* `result` is bound
     completed_chunk_ids |-> {},  \* _store_chunks: the ids read from the job
     todo |-> <<>>,               \* _store_chunks: chunks_to_process
     i |-> 0,                     \* _store_chunks: batch start
     m |-> 0,                     \* position in the batch of the chunk being marked
     current_ids |-> <<>>,        \* mark_chunk_completed: the list it selected
     ni |-> 0, ri |-> 0,          \* _create_graph: loop indices
     note |-> None, ci |-> 0,     \* _update_progress on a pool thread: the event, the index of the for loop over the callbacks
     after |-> None,              \* ... and the position to go on from
     exc |-> None,                \* the exception being handled, str(e)
     ret |-> None,                \* how the execution ended: "result", "None" (returned None), "raise"
     upserted |-> <<>>,           \* history: chunk ids this execution sent to upsert_points
     faults |-> {},               \* history: collaborator calls that failed in this execution
     log |-> <<>>]                \* history: stage events of this execution

\* run r is at pcv and may take its step: a task needs the event loop
Ready(r, pcv) ==
    /\ phase = "serving"
    /\ r \in DOMAIN runs
    /\ runs[r].pc = pcv
    /\ runs[r].kind = "task" => loop \in {0, r}

\* the holder of the event loop after a step of r.  A task keeps the loop
\* until it ends or awaits something that really suspends it (run_in_executor,
\* a graph-store call): such a step runs up to the await, the awaited call
\* completes off the loop, and the task goes on when the loop is free again.
Held == FALSE
Awaited == TRUE
LoopAfter(r, awaited, newpc) ==
    IF runs[r].kind = "task"
    THEN (IF awaited \/ newpc = "done" THEN 0 ELSE r)
    ELSE loop

JobStatusOf(stage) ==
    CASE stage = "completed" -> "completed"
      [] stage = "failed" -> "failed"
      [] stage = "cancelled" -> "cancelled"
      [] OTHER -> "running"

\* _update_progress: the write to the job record
update_progress(J, job_id, stage, progress, error) ==
    update_job_progress(J, job_id, Some(JobStatusOf(stage)), Some(progress),
                        Omitted, Omitted, error)

unchanged_history == UNCHANGED <<cancelHist, interrupted, marked>>
unchanged_feed == UNCHANGED <<progress_callbacks, subs, emitted>>
unchanged_stores == UNCHANGED <<stored, sent, deleted, written>>
\* history: the call `op` reaches the store for job_id; it is noted when a
\* delete_job of the job has returned true before
Since(job_id, op) ==
    IF deleted[job_id].n > 0 THEN [deleted EXCEPT ![job_id].since = @ \cup {op}]
    ELSE deleted

unchanged_process == UNCHANGED <<uuid, active_jobs, cancelled_jobs, next_run, phase, restarts, pool, xp>>

\* _update_progress 472-476: the event is put into the queue of every
\* subscription in the list `callbacks`
Delivered(S, callbacks, ev) ==
    [s \in DOMAIN S |-> IF Contains(callbacks, s)
                        THEN [S[s] EXCEPT !.queue = Append(@, ev)]
                        ELSE S[s]]

\* _update_progress 444-476 after the write to the job record: the event of
\* execution r at `stage` goes to the callbacks; R is `runs` as the step
\* leaves it.  On the event loop the for loop runs without interruption
\* (queue.put does not suspend); on a pool thread (asyncio.run in
\* _process_sync) it runs beside the event loop, one callback per step
Emit(r, stage, progress, R) ==
    LET job_id == runs[r].job
        ev == [n |-> emitted[job_id] + 1, stage |-> stage, progress |-> progress]
        stepwise == runs[r].kind = "thread" /\ progress_callbacks[job_id] # <<>>
    IN /\ emitted' = [emitted EXCEPT ![job_id] = @ + 1]
       /\ runs' = IF stepwise
                  THEN [R EXCEPT ![r].pc = "notify", ![r].after = R[r].pc,
                                 ![r].ci = 0, ![r].note = ev]
                  ELSE R
       /\ subs' = IF runs[r].kind = "task"
                  THEN Delivered(subs, progress_callbacks[job_id], ev)
                  ELSE subs
       /\ written' = IF job_id \in DOMAIN jobs THEN [written EXCEPT ![job_id] = progress]
                      ELSE written
       /\ deleted' = Since(job_id, "update_job_progress")
       /\ UNCHANGED <<progress_callbacks, stored, sent>>

\* a step of execution r from pcv to newpc that writes one progress update
ProgressStep(r, pcv, stage, progress, newpc) ==
    /\ Ready(r, pcv)
    /\ jobs' = update_progress(jobs, runs[r].job, stage, progress, Omitted)
    /\ Emit(r, stage, progress, [runs EXCEPT ![r].pc = newpc])
    /\ loop' = LoopAfter(r, Held, newpc)
    /\ unchanged_process /\ unchanged_history

\* a step of execution r from pcv that only reads the cancellation flag:
\* to `out` when the job is flagged, to `on` otherwise
CancelCheck(r, pcv, out, on) ==
    /\ Ready(r, pcv)
    /\ LET newpc == IF runs[r].job \in cancelled_jobs THEN out ELSE on IN
       /\ runs' = [runs EXCEPT ![r].pc = newpc,
                               ![r].ret = IF newpc = "done" THEN "None" ELSE @]
       /\ loop' = LoopAfter(r, Held, newpc)
    /\ UNCHANGED jobs
    /\ unchanged_process /\ unchanged_history /\ unchanged_feed /\ unchanged_stores

\* ---- start_processing ----
start_processing(file_path, create_graph) ==
    /\ phase = "serving" /\ loop = 0
    /\ uuid < MaxJobs /\ next_run < MaxRuns
    /\ LET job_id == uuid + 1
           options == [create_graph |-> create_graph]
       IN /\ jobs' = create_job(jobs, job_id, file_path, options)
          /\ uuid' = job_id
          /\ next_run' = next_run + 1
          /\ runs' = runs @@ (next_run + 1 :> NewRun(job_id, "task", file_path, options))
          /\ active_jobs' = active_jobs \cup {job_id}
    /\ UNCHANGED <<cancelled_jobs, loop, phase, restarts, pool, xp>>
    /\ unchanged_history /\ unchanged_feed /\ unchanged_stores

\* ---- _process_async / _process_sync ----
\* async 246, sync 350
check_start(r) == CancelCheck(r, "start", "done", "progress_parsing")

\* _parse_xml_sync 322-336, process_file: the extraction succeeds or raises
Parsed(r, ok) ==
    [runs EXCEPT ![r].pc = IF ok THEN "check_parsed" ELSE "except",
                 ![r].parsed = ok,
                 ![r].exc = IF ok THEN @ ELSE "parse failed",
                 ![r].faults = IF ok THEN @ ELSE @ \cup {"parse"},
                 ![r].log = IF ok THEN Append(@, "parsed") ELSE @]

\* async 252-266: the 0.05 update, then the extraction on a pool thread with
\* the task suspended.  sync 354: the 0.0 update
progress_parsing(r) ==
    /\ Ready(r, "progress_parsing")
    /\ IF runs[r].kind = "task"
       THEN /\ jobs' = update_progress(jobs, runs[r].job, "parsing", 500, Omitted)
            /\ \E ok \in BOOLEAN : Emit(r, "parsing", 500, Parsed(r, ok))
       ELSE /\ jobs' = update_progress(jobs, runs[r].job, "parsing", 0, Omitted)
            /\ Emit(r, "parsing", 0, [runs EXCEPT ![r].pc = "progress_extracting"])
    /\ loop' = LoopAfter(r, Awaited, "check_parsed")
    /\ unchanged_process /\ unchanged_history

\* sync 360-375: the 0.1 update, then the extraction
progress_extracting(r) ==
    /\ Ready(r, "progress_extracting")
    /\ jobs' = update_progress(jobs, runs[r].job, "extracting", 1000, Omitted)
    /\ \E ok \in BOOLEAN : Emit(r, "extracting", 1000, Parsed(r, ok))
    /\ loop' = LoopAfter(r, Awaited, "check_parsed")
    /\ unchanged_process /\ unchanged_history

\* async 270, sync 377
check_parsed(r) == CancelCheck(r, "check_parsed", "done", "update_total")

\* async 275, sync 381
update_total(r) ==
    /\ Ready(r, "update_total")
    /\ jobs' = update_job_progress(jobs, runs[r].job, Some("running"), Omitted,
                                   Some(Len(result_chunks(runs[r].file_path))), Omitted, Omitted)
    /\ runs' = [runs EXCEPT ![r].pc = "progress_chunking"]
    /\ loop' = LoopAfter(r, Held, "progress_chunking")
    /\ unchanged_process /\ unchanged_history /\ unchanged_feed /\ unchanged_stores

\* async 281, sync 387
progress_chunking(r) ==
    ProgressStep(r, "progress_chunking", "chunking", 3000, "progress_embedding")

\* async 287, sync 393
progress_embedding(r) ==
    ProgressStep(r, "progress_embedding", "embedding", 4000, "store_get_job")

\* ---- _store_chunks ----
chunks_to_process_unfiltered(chunks, completed_chunk_ids) == chunks

\* 500: the chunks whose id is not in the completed set, in document order
chunks_to_process(chunks, completed_chunk_ids) == SelectSeqBy(chunks, completed_chunk_ids)

\* 506: chunks_to_process[i:i + batch_size]
batch_of(todo, i) == SubSeq(todo, i + 1, Min(i + batch_size, Len(todo)))

\* 496-500
store_get_job(r) ==
    /\ Ready(r, "store_get_job")
    /\ LET job == get_job(jobs, runs[r].job)
           done == IF job # <<>> THEN SeqToSet(job[1].completed_chunk_ids) ELSE {}
       IN runs' = [runs EXCEPT
                     ![r].completed_chunk_ids = done,
                     ![r].todo = chunks_to_process(result_chunks(runs[r].file_path), done),
                     ![r].i = 0,
                     ![r].pc = "batch"]
    /\ loop' = LoopAfter(r, Held, "batch")
    /\ UNCHANGED jobs
    /\ unchanged_process /\ unchanged_history /\ unchanged_feed /\ unchanged_stores

after_upsert_ignoring_failure(outcome) == "mark_select"

\* 510-543: embed_texts or upsert_points raising leaves _store_chunks; when
\* both returned the chunks of the batch are marked
after_upsert(outcome) == IF outcome = "ok" THEN "mark_select" ELSE "except"

\* 502-539: the loop header, the cancellation check of one batch, then
\* embed_texts and upsert_points of the batch, either of which may raise;
\* leaving the loop, at its end or on the flag, returns from _store_chunks
batch(r) ==
    /\ Ready(r, "batch")
    /\ IF runs[r].i >= Len(runs[r].todo) \/ runs[r].job \in cancelled_jobs
       THEN /\ runs' = [runs EXCEPT ![r].pc = "check_stored", ![r].log = Append(@, "stored")]
            /\ loop' = LoopAfter(r, Held, "check_stored")
            /\ UNCHANGED stored
       ELSE \E outcome \in {"ok", "embed", "upsert"} :
            LET newpc == after_upsert(outcome) IN
            /\ runs' = [runs EXCEPT
                          ![r].pc = newpc,
                          ![r].m = IF newpc = "mark_select" THEN 1 ELSE @,
                          ![r].upserted = IF outcome = "ok"
                                          THEN @ \o batch_of(runs[r].todo, runs[r].i) ELSE @,
                          ![r].log = IF outcome = "ok" THEN Append(@, "upsert") ELSE @,
                          ![r].exc = IF outcome = "embed" THEN "embedding failed"
                                     ELSE IF outcome = "upsert" THEN "upsert failed" ELSE @,
                          ![r].faults = IF outcome = "ok" THEN @ ELSE @ \cup {outcome}]
            /\ stored' = IF outcome = "ok"
                          THEN stored \cup {<<runs[r].job, c>> :
                                               c \in SeqToSet(batch_of(runs[r].todo, runs[r].i))}
                          ELSE stored
            /\ loop' = LoopAfter(r, Held, newpc)
    /\ UNCHANGED <<jobs, sent, deleted, written>>
    /\ unchanged_process /\ unchanged_history /\ unchanged_feed

\* the position after the chunk at position m of the batch has been marked
AfterMark(r) ==
    IF runs[r].m < Len(batch_of(runs[r].todo, runs[r].i))
    THEN [pc |-> "mark_select", m |-> runs[r].m + 1]
    ELSE [pc |-> "batch_progress", m |-> 0]

\* 543 -> mark_chunk_completed 321-327: the SELECT and the membership test
mark_select(r) ==
    /\ Ready(r, "mark_select")
    /\ LET chunk_id == batch_of(runs[r].todo, runs[r].i)[runs[r].m]
           row == mark_chunk_select(jobs, runs[r].job)
           write == row # <<>> /\ mark_chunk_needs_update(row[1], chunk_id)
           newpc == IF write THEN "mark_update" ELSE AfterMark(r).pc
       IN /\ runs' = [runs EXCEPT
                        ![r].pc = newpc,
                        ![r].current_ids = IF write THEN row[1] ELSE <<>>,
                        ![r].m = IF write THEN @ ELSE AfterMark(r).m]
          /\ loop' = LoopAfter(r, Held, newpc)
          /\ marked' = IF write THEN marked ELSE marked \cup {<<runs[r].job, chunk_id>>}
    /\ deleted' = Since(runs[r].job, "mark_chunk_completed")
    /\ UNCHANGED <<jobs, cancelHist, interrupted, stored, sent, written>>
    /\ unchanged_process /\ unchanged_feed

\* mark_chunk_completed 328-332: the UPDATE
mark_update(r) ==
    /\ Ready(r, "mark_update")
    /\ LET chunk_id == batch_of(runs[r].todo, runs[r].i)[runs[r].m] IN
       /\ jobs' = mark_chunk_update(jobs, runs[r].job, runs[r].current_ids, chunk_id)
       /\ marked' = marked \cup {<<runs[r].job, chunk_id>>}
    /\ runs' = [runs EXCEPT ![r].pc = AfterMark(r).pc,
                            ![r].m = AfterMark(r).m,
                            ![r].current_ids = <<>>]
    /\ loop' = LoopAfter(r, Held, AfterMark(r).pc)
    /\ deleted' = Since(runs[r].job, "mark_chunk_completed")
    /\ UNCHANGED <<cancelHist, interrupted, stored, sent, written>>
    /\ unchanged_process /\ unchanged_feed

\* 545: 0.4 + (0.4 * (i + len(batch)) / total_chunks)
batch_progress_value(i, batch_len, total_chunks) ==
    4000 + (4000 * (i + batch_len)) \div total_chunks

\* 545-551, and the step of the for loop
batch_progress(r) ==
    /\ Ready(r, "batch_progress")
    /\ jobs' = update_progress(jobs, runs[r].job, "storing_vectors",
                   batch_progress_value(runs[r].i, Len(batch_of(runs[r].todo, runs[r].i)),
                                        Len(result_chunks(runs[r].file_path))),
                   Omitted)
    /\ Emit(r, "storing_vectors",
            batch_progress_value(runs[r].i, Len(batch_of(runs[r].todo, runs[r].i)),
                                 Len(result_chunks(runs[r].file_path))),
            [runs EXCEPT ![r].pc = "batch", ![r].i = @ + batch_size])
    /\ loop' = LoopAfter(r, Held, "batch")
    /\ unchanged_process /\ unchanged_history

\* async 295-299, sync 403-407: the check after _store_chunks and the branch on create_graph
check_stored(r) ==
    CancelCheck(r, "check_stored", "done",
                IF runs[r].options.create_graph THEN "progress_graph" ELSE "progress_completed")

\* async 300, sync 408
progress_graph(r) ==
    ProgressStep(r, "progress_graph", "creating_graph", 8000, "node")

\* ---- _create_graph (the graph service is connected) ----
\* 573: 0.8 + (0.1 * i / total_entities)
node_progress_value(i, total_entities) == 8000 + (1000 * i) \div total_entities

\* 589: 0.9 + (0.1 * i / total_rels) if total_rels > 0 else 0.95
rel_progress_value(i, total_rels) ==
    IF total_rels > 0 THEN 9000 + (1000 * i) \div total_rels ELSE 9500

\* 566-572: the loop header, the cancellation check of one node (a flagged
\* job returns from _create_graph), then GraphService.create_node, awaited,
\* which may raise; a progress update follows when i % 50 == 0
node(r) ==
    /\ Ready(r, "node")
    /\ IF runs[r].ni >= result_entities(runs[r].file_path)
       THEN runs' = [runs EXCEPT ![r].pc = "rel"] /\ loop' = LoopAfter(r, Held, "rel")
            /\ UNCHANGED sent
       ELSE IF runs[r].job \in cancelled_jobs
       THEN /\ runs' = [runs EXCEPT ![r].pc = "progress_completed", ![r].log = Append(@, "graphed")]
            /\ loop' = LoopAfter(r, Held, "progress_completed")
            /\ UNCHANGED sent
       ELSE /\ loop' = LoopAfter(r, Awaited, "node")
            /\ \E ok \in BOOLEAN :
                 /\ sent' = IF ok THEN sent \cup {<<runs[r].job, "node", runs[r].ni>>} ELSE sent
                 /\ runs' = [runs EXCEPT
                       ![r].pc = IF ~ok THEN "except"
                                 ELSE IF runs[r].ni % 50 = 0 THEN "node_progress" ELSE "node",
                       ![r].ni = IF ok /\ runs[r].ni % 50 # 0 THEN @ + 1 ELSE @,
                       ![r].exc = IF ok THEN @ ELSE "node failed",
                       ![r].faults = IF ok THEN @ ELSE @ \cup {"node"},
                       ![r].log = IF ok THEN Append(@, "node") ELSE @]
    /\ UNCHANGED <<jobs, stored, deleted, written>>
    /\ unchanged_process /\ unchanged_history /\ unchanged_feed

\* 573-579, and the step of the for loop
node_progress(r) ==
    /\ Ready(r, "node_progress")
    /\ jobs' = update_progress(jobs, runs[r].job, "creating_graph",
                   node_progress_value(runs[r].ni, result_entities(runs[r].file_path)), Omitted)
    /\ Emit(r, "creating_graph",
            node_progress_value(runs[r].ni, result_entities(runs[r].file_path)),
            [runs EXCEPT ![r].pc = "node", ![r].ni = @ + 1])
    /\ loop' = LoopAfter(r, Held, "node")
    /\ unchanged_process /\ unchanged_history

\* 582-588: the loop header, the cancellation check of one relationship
\* (leaving the loop, either way, returns from _create_graph), then
\* GraphService.create_relationship (graph_service.py 248-280), awaited: a
\* failing query is caught inside and the call returns False, which
\* _create_graph does not look at; a progress update follows when i % 100 == 0
rel(r) ==
    /\ Ready(r, "rel")
    /\ IF runs[r].ri >= result_relationships(runs[r].file_path) \/ runs[r].job \in cancelled_jobs
       THEN /\ runs' = [runs EXCEPT ![r].pc = "progress_completed", ![r].log = Append(@, "graphed")]
            /\ loop' = LoopAfter(r, Held, "progress_completed")
            /\ UNCHANGED sent
       ELSE /\ loop' = LoopAfter(r, Awaited, "rel")
            /\ sent' = sent \cup {<<runs[r].job, "rel", runs[r].ri>>}
            /\ \E ok \in BOOLEAN :
                 runs' = [runs EXCEPT
                       ![r].pc = IF runs[r].ri % 100 = 0 THEN "rel_progress" ELSE "rel",
                       ![r].ri = IF runs[r].ri % 100 # 0 THEN @ + 1 ELSE @,
                       ![r].faults = IF ok THEN @ ELSE @ \cup {"relationship"},
                       ![r].log = Append(@, "rel")]
    /\ UNCHANGED <<jobs, stored, deleted, written>>
    /\ unchanged_process /\ unchanged_history /\ unchanged_feed

\* 589-595, and the step of the for loop
rel_progress(r) ==
    /\ Ready(r, "rel_progress")
    /\ jobs' = update_progress(jobs, runs[r].job, "creating_graph",
                   rel_progress_value(runs[r].ri, result_relationships(runs[r].file_path)), Omitted)
    /\ Emit(r, "creating_graph",
            rel_progress_value(runs[r].ri, result_relationships(runs[r].file_path)),
            [runs EXCEPT ![r].pc = "rel", ![r].ri = @ + 1])
    /\ loop' = LoopAfter(r, Held, "rel")
    /\ unchanged_process /\ unchanged_history

\* ---- the end of _process_async / _process_sync ----
\* async 307-312, sync 417-422: the completed update, return result
progress_completed(r) ==
    /\ Ready(r, "progress_completed")
    /\ jobs' = update_progress(jobs, runs[r].job, "completed", 10000, Omitted)
    /\ Emit(r, "completed", 10000, [runs EXCEPT ![r].pc = "done", ![r].ret = "result",
                                         ![r].log = Append(@, "completed")])
    /\ loop' = LoopAfter(r, Held, "done")
    /\ unchanged_process /\ unchanged_history

\* async 314-320, sync 424-430: the failed update with progress 0.0, raise
except_failed(r) ==
    /\ Ready(r, "except")
    /\ jobs' = update_progress(jobs, runs[r].job, "failed", 0, Some(runs[r].exc))
    /\ Emit(r, "failed", 0, [runs EXCEPT ![r].pc = "done", ![r].ret = "raise"])
    /\ loop' = LoopAfter(r, Held, "done")
    /\ unchanged_process /\ unchanged_history

\* the body shared by the two completion handlers, each a task of its own
\* on the event loop (no task is ever cancelled, so the CancelledError
\* branch of _handle_completion_task is dead)
HandleCompletion(r, kind) ==
    /\ phase = "serving" /\ loop = 0
    /\ r \in DOMAIN runs /\ runs[r].kind = kind /\ runs[r].pc = "done"
    /\ active_jobs' = active_jobs \ {runs[r].job}
    /\ jobs' = CASE runs[r].ret = "result" ->
                      update_job_progress(jobs, runs[r].job, Some("completed"), Some(10000),
                                          Omitted, Omitted, Omitted)
                 [] runs[r].ret = "raise" ->
                      update_job_progress(jobs, runs[r].job, Some("failed"), Omitted,
                                          Omitted, Omitted, Some(runs[r].exc))
                 [] OTHER -> jobs
    /\ written' = IF runs[r].ret = "result" /\ runs[r].job \in DOMAIN jobs
                   THEN [written EXCEPT ![runs[r].job] = 10000] ELSE written
    /\ runs' = [q \in DOMAIN runs \ {r} |-> runs[q]]
    /\ UNCHANGED <<uuid, cancelled_jobs, next_run, loop, phase, restarts, pool, xp>>
    /\ UNCHANGED <<stored, sent, deleted>>
    /\ unchanged_history /\ unchanged_feed

\* 184-210
handle_completion_task(r) == HandleCompletion(r, "task")

\* 212-232
handle_completion(r) == HandleCompletion(r, "thread")

\* ---- cancel_job, 597-615 ----
cancel_job(job_id) ==
    /\ phase = "serving" /\ loop = 0
    /\ IF job_id \in active_jobs
       THEN /\ cancelled_jobs' = cancelled_jobs \cup {job_id}
            /\ jobs' = update_job_progress(jobs, job_id, Some("cancelled"), Omitted,
                                           Omitted, Omitted, Omitted)
            /\ cancelHist' = [cancelHist EXCEPT ![job_id] = "cancelled"]
       ELSE UNCHANGED <<cancelled_jobs, jobs, cancelHist>>
    /\ UNCHANGED <<uuid, active_jobs, runs, next_run, loop, phase, restarts, pool, xp, interrupted, marked>>
    /\ unchanged_feed /\ unchanged_stores

\* ---- resume_job, 649-691 ----
resume_accepts(status) == status \in {"running", "failed"}

resume_job(job_id) ==
    /\ phase = "serving" /\ loop = 0
    /\ LET job == get_job(jobs, job_id)
           ok == job # <<>> /\ resume_accepts(job[1].status)
       IN /\ cancelHist' = [cancelHist EXCEPT ![job_id] = IF @ = "cancelled" THEN "reissued" ELSE @]
          /\ IF ok
             THEN /\ next_run < MaxRuns
                  /\ cancelled_jobs' = cancelled_jobs \ {job_id}
                  /\ jobs' = update_job_progress(jobs, job_id, Some("running"), Omitted,
                                                 Omitted, Omitted, Omitted)
                  /\ next_run' = next_run + 1
                  /\ runs' = runs @@ (next_run + 1 :>
                                NewRun(job_id, "thread", job[1].file_path, job[1].options))
                  /\ active_jobs' = active_jobs \cup {job_id}
                  /\ interrupted' = interrupted \ {job_id}
             ELSE UNCHANGED <<cancelled_jobs, jobs, next_run, runs, active_jobs, interrupted>>
    /\ UNCHANGED <<uuid, loop, phase, restarts, pool, xp, marked>>
    /\ unchanged_feed /\ unchanged_stores

\* ---- the process ----
\* the process dies and is started again: the jobs table is all that survives
Restart ==
    /\ phase = "serving"
    /\ restarts < MaxRestarts
    /\ restarts' = restarts + 1
    /\ phase' = "starting"
    /\ runs' = <<>>
    /\ active_jobs' = {}
    /\ cancelled_jobs' = {}
    /\ loop' = 0
    /\ interrupted' = {j \in DOMAIN jobs : jobs[j].status = "running"}
    /\ progress_callbacks' = [j \in JobIds |-> <<>>]
    /\ subs' = <<>>
    /\ pool' = EmptyPool
    /\ UNCHANGED <<jobs, uuid, next_run, cancelHist, marked, emitted, xp>>
    /\ unchanged_stores

\* job_persistence.py 559-571: the startup hook of the store; main.py does
\* not call it, a deployment may before it serves
initialize_job_persistence ==
    /\ phase = "starting"
    /\ phase' = "initialized"
    /\ \E old \in SUBSET {j \in DOMAIN jobs : jobs[j].created_at < utcnow} :
         jobs' = cleanup_old_jobs(mark_interrupted_jobs_resumable(jobs), old)
    /\ UNCHANGED <<uuid, active_jobs, cancelled_jobs, runs, next_run, loop, restarts, pool, xp>>
    /\ unchanged_history /\ unchanged_feed /\ unchanged_stores

\* main.py 82-116: the application starts to serve requests
lifespan ==
    /\ phase \in {"starting", "initialized"}
    /\ phase' = "serving"
    /\ UNCHANGED <<jobs, uuid, active_jobs, cancelled_jobs, runs, next_run, loop, restarts, pool, xp>>
    /\ unchanged_history /\ unchanged_feed /\ unchanged_stores

PipelineStep(r) ==
    \/ check_start(r) \/ progress_parsing(r) \/ progress_extracting(r)
    \/ check_parsed(r) \/ update_total(r) \/ progress_chunking(r) \/ progress_embedding(r)
    \/ store_get_job(r) \/ batch(r) \/ mark_select(r) \/ mark_update(r) \/ batch_progress(r)
    \/ check_stored(r) \/ progress_graph(r)
    \/ node(r) \/ node_progress(r) \/ rel(r) \/ rel_progress(r)
    \/ progress_completed(r) \/ except_failed(r)

Next ==
    \/ \E file_path \in Files, create_graph \in BOOLEAN : start_processing(file_path, create_graph)
    \/ \E r \in RunIds : PipelineStep(r)
    \/ \E r \in RunIds : handle_completion_task(r)
    \/ \E r \in RunIds : handle_completion(r)
    \/ \E job_id \in 1..uuid : cancel_job(job_id)
    \/ \E job_id \in 1..uuid : resume_job(job_id)
    \/ Restart
    \/ initialize_job_persistence
    \/ lifespan

Spec == Init /\ [][Next]_vars

\* ---- the lifecycle of one job ----
\* One document is submitted; it is cancelled, fails, is interrupted by
\* restarts, and is resumed while no pipeline of it is running.
NextJob ==
    \/ \E file_path \in Files, create_graph \in BOOLEAN :
         uuid = 0 /\ start_processing(file_path, create_graph)
    \/ \E r \in RunIds : PipelineStep(r)
    \/ \E r \in RunIds : handle_completion_task(r)
    \/ \E r \in RunIds : handle_completion(r)
    \/ \E job_id \in 1..uuid : cancel_job(job_id)
    \/ \E job_id \in 1..uuid :
         (\A q \in DOMAIN runs : runs[q].job # job_id) /\ resume_job(job_id)
    \/ Restart
    \/ initialize_job_persistence
    \/ lifespan

SpecJob == Init /\ [][NextJob]_vars

\* ---- the store alone: calls made one after the other ----
StoreCreate(file_path) ==
    /\ uuid < MaxJobs
    /\ jobs' = create_job(jobs, uuid + 1, file_path, [create_graph |-> TRUE])
    /\ uuid' = uuid + 1
    /\ UNCHANGED <<active_jobs, cancelled_jobs, runs, next_run, loop, phase, restarts, pool, xp,
                   cancelHist, interrupted, marked>>
    /\ unchanged_feed /\ unchanged_stores

StoreMark(job_id, chunk_id) ==
    /\ jobs' = mark_chunk_completed(jobs, job_id, chunk_id)
    /\ marked' = IF job_id \in DOMAIN jobs THEN marked \cup {<<job_id, chunk_id>>} ELSE marked
    /\ UNCHANGED <<uuid, active_jobs, cancelled_jobs, runs, next_run, loop, phase, restarts, pool, xp,
                   cancelHist, interrupted>>
    /\ unchanged_feed /\ unchanged_stores

NextStore ==
    \/ \E file_path \in Files : StoreCreate(file_path)
    \/ \E job_id \in JobIds, chunk_id \in 1..MaxChunks : StoreMark(job_id, chunk_id)

SpecStore == Init /\ [][NextStore]_vars

\* ---- properties ----
NoDup(s) == \A a, b \in 1..Len(s) : s[a] = s[b] => a = b

\* execution r has left the chunk-storage loop at its end
StoreEnded(r) == Contains(runs[r].log, "stored") /\ runs[r].i >= Len(runs[r].todo)

\* execution r has upserted a batch that it is still marking, or has a batch left
Storing(r) ==
    \/ runs[r].pc \in {"mark_select", "mark_update", "batch_progress"}
    \/ runs[r].pc = "batch" /\ runs[r].i < Len(runs[r].todo)

\* execution r is inside _create_graph
GraphPopulating(r) == runs[r].pc \in {"node", "node_progress", "rel", "rel_progress"}

\* the stage events of one execution are in the order parse, chunk storage,
\* graph population, completed
Ordered(log, create_graph) ==
    \A k \in 1..Len(log) :
        /\ log[k] = "parsed" => k = 1
        /\ log[k] = "upsert" => /\ \E p \in 1..(k - 1) : log[p] = "parsed"
                                /\ \A p \in 1..(k - 1) : log[p] \in {"parsed", "upsert"}
        /\ log[k] = "stored" => \E p \in 1..(k - 1) : log[p] = "parsed"
        /\ log[k] \in {"node", "rel"} =>
               /\ \E p \in 1..(k - 1) : log[p] = "stored"
               /\ \A p \in 1..(k - 1) : log[p] # "graphed"
        /\ log[k] = "graphed" => \E p \in 1..(k - 1) : log[p] = "stored"
        /\ log[k] = "completed" =>
               /\ k = Len(log)
               /\ \E p \in 1..(k - 1) : log[p] = "stored"
               /\ create_graph => \E p \in 1..(k - 1) : log[p] = "graphed"

\* C1: once cancel_job has returned true for a job and no resume_job has been
\* issued since, the job's persisted status is cancelled and stays cancelled,
\* whatever the pipeline still running and the completion handler do.
C1_CancelledStaysCancelled ==
    \A j \in DOMAIN jobs : cancelHist[j] = "cancelled" => jobs[j].status = "cancelled"

\* C2: a resumed execution that read a completed set holding k of the n chunk
\* ids of its document upserts no chunk whose id is in that set and, once its
\* storage loop has ended, has upserted exactly the n-k other chunks.
C2_ResumeStoresOnlyTheRest ==
    \A r \in DOMAIN runs :
        runs[r].kind = "thread" =>
            LET chunks == result_chunks(runs[r].file_path)
                done == runs[r].completed_chunk_ids
                k == Cardinality({p \in 1..Len(chunks) : chunks[p] \in done})
            IN /\ \A p \in 1..Len(runs[r].upserted) : runs[r].upserted[p] \notin done
               /\ StoreEnded(r) =>
                      /\ Len(runs[r].upserted) = Len(chunks) - k
                      /\ SeqToSet(runs[r].upserted) = SeqToSet(chunks) \ done

\* C2 witness: a resumed execution found some chunks completed, others not,
\* and has finished storing the others
C2_Witness ==
    \E r \in DOMAIN runs :
        /\ runs[r].kind = "thread" /\ StoreEnded(r)
        /\ runs[r].completed_chunk_ids # {}
        /\ runs[r].upserted # <<>>

\* C3: for a job that is not cancelled and has not failed, no step lowers the
\* progress written to its record, also across a crash and a resume_job, and
\* the progress is exactly 1.0 whenever the status is completed.
C3_ProgressNeverDecreases ==
    [][\A j \in DOMAIN jobs \cap DOMAIN jobs' :
          (/\ cancelHist'[j] = "none"
           /\ jobs'[j].error_message = None
           /\ jobs'[j].status \notin {"failed", "cancelled"})
          => /\ jobs'[j].progress_percent >= jobs[j].progress_percent
             /\ jobs'[j].status = "completed" => jobs'[j].progress_percent = 10000 * 100]_vars

\* C4: once the service serves requests again after a restart, no job left
\* over from the previous process still has status running (unless it has been
\* resumed since).
C4_NoRunningLeftAfterStartup ==
    phase = "serving" =>
        \A j \in interrupted \cap DOMAIN jobs : jobs[j].status # "running"

\* C5: every job returned by get_resumable_jobs is accepted by resume_job.
C5_ResumableIsAccepted ==
    \A j \in get_resumable_jobs(jobs) : resume_accepts(jobs[j].status)

\* C6: a resume_job call on a job that was cancelled through cancel_job starts
\* no pipeline and leaves the job record unchanged.
C6_CancelledResumeRejected ==
    [][\A j \in DOMAIN jobs :
          (cancelHist[j] = "cancelled" /\ cancelHist'[j] = "reissued")
          => /\ jobs' = jobs
             /\ runs' = runs
             /\ active_jobs' = active_jobs]_vars

\* C7: when cancel_job cancels a job of which c chunks have been marked
\* complete, the completed_chunks counter of its record is at least c and at
\* most c + batch_size.
C7_CompletedChunksCounter ==
    [][\A j \in DOMAIN jobs :
          (cancelHist[j] # "cancelled" /\ cancelHist'[j] = "cancelled")
          => LET c == Len(jobs[j].completed_chunk_ids)
             IN /\ jobs'[j].completed_chunks >= c
                /\ jobs'[j].completed_chunks <= c + batch_size]_vars

\* C8: an execution in which parsing or an embedding, upsert, node or
\* relationship call failed ends with the job (not cancelled meanwhile)
\* in status failed and error_message set to the failure's message.
C8_FailureEndsFailed ==
    \A r \in DOMAIN runs :
        (/\ runs[r].pc = "done"
         /\ runs[r].faults # {}
         /\ runs[r].job \in DOMAIN jobs
         /\ cancelHist[runs[r].job] = "none")
        => /\ jobs[runs[r].job].status = "failed"
           /\ runs[r].exc # None
           /\ jobs[runs[r].job].error_message = runs[r].exc

\* C9: within one job the stages occur in the order parse, chunk storage,
\* graph population, completed: each execution goes through them in that
\* order, no graph node of the job has been created while chunks of the job
\* are still being stored, and completed has been reported only when no graph
\* population of the job is going on.
C9_StagesInOrder ==
    /\ \A r \in DOMAIN runs : Ordered(runs[r].log, runs[r].options.create_graph)
    /\ \A r, q \in DOMAIN runs :
          runs[r].job = runs[q].job =>
              /\ Contains(runs[r].log, "node") => ~Storing(q)
              /\ Contains(runs[r].log, "completed") => ~GraphPopulating(q)

\* C10: after any sequence of mark_chunk_completed calls the completed list of
\* a job holds each marked chunk id exactly once, and a call with an id that
\* is already in the list leaves every job record unchanged.
C10_MarkIdempotent ==
    /\ [](\A j \in DOMAIN jobs :
             /\ NoDup(jobs[j].completed_chunk_ids)
             /\ SeqToSet(jobs[j].completed_chunk_ids) = {c \in 1..MaxChunks : <<j, c>> \in marked})
    /\ [][\A j \in DOMAIN jobs : marked' = marked => jobs'[j] = jobs[j]]_vars

\* C10 witness: a job with more than one chunk marked
C10_Witness ==
    \E j \in DOMAIN jobs : Len(jobs[j].completed_chunk_ids) > 1

\* C11: concurrent writers to one job record are serialized: no chunk id whose
\* mark_chunk_completed call has returned is missing from the job's completed
\* list, also when the calls of two executions of the job interleave.
C11_NoMarkLost ==
    \A pair \in marked :
        pair[1] \in DOMAIN jobs => Contains(jobs[pair[1]].completed_chunk_ids, pair[2])

\* ---- the store alone: one record, updated and marked by calls made one after the other ----
StatusArgs == {Omitted} \cup {Some(st) : st \in {"running", "completed", "failed"}}
ProgressArgs == {Omitted} \cup {Some(p) : p \in {5000, 10000}}
CountArgs == {Omitted} \cup {Some(n) : n \in {1, MaxChunks}}
ErrorArgs == {Omitted, Some("error")}

StoreUpdate(job_id, status, progress, total_chunks, completed_chunks, error_message) ==
    /\ jobs' = update_job_progress(jobs, job_id, status, progress, total_chunks,
                                   completed_chunks, error_message)
    /\ written' = IF progress # Omitted /\ job_id \in DOMAIN jobs
                   THEN [written EXCEPT ![job_id] = progress[1]] ELSE written
    /\ UNCHANGED <<uuid, active_jobs, cancelled_jobs, runs, next_run, loop, phase, restarts, pool, xp,
                   cancelHist, interrupted, marked>>
    /\ UNCHANGED <<stored, sent, deleted>>
    /\ unchanged_feed

NextUpdate ==
    \/ \E file_path \in Files : uuid = 0 /\ StoreCreate(file_path)
    \/ \E job_id \in JobIds, chunk_id \in 1..MaxChunks : StoreMark(job_id, chunk_id)
    \/ \E job_id \in JobIds, status \in StatusArgs, progress \in ProgressArgs,
          total_chunks \in CountArgs, completed_chunks \in CountArgs, error_message \in ErrorArgs :
         StoreUpdate(job_id, status, progress, total_chunks, completed_chunks, error_message)

SpecUpdate == Init /\ [][NextUpdate]_vars

\* C12: update_job_progress changes only the fields that are supplied: a call
\* with any arguments leaves every other record as it is and, in the record of
\* job_id, every field whose argument is omitted; a call for a job id that
\* does not exist changes no record.
C12_OnlySuppliedFieldsChange ==
    \A job_id \in JobIds, status \in StatusArgs, progress \in ProgressArgs,
       total_chunks \in CountArgs, completed_chunks \in CountArgs, error_message \in ErrorArgs :
        LET after == update_job_progress(jobs, job_id, status, progress, total_chunks,
                                         completed_chunks, error_message)
        IN /\ DOMAIN after = DOMAIN jobs
           /\ \A j \in DOMAIN jobs \ {job_id} : after[j] = jobs[j]
           /\ job_id \in DOMAIN jobs =>
                 /\ status = Omitted => after[job_id].status = jobs[job_id].status
                 /\ progress = Omitted =>
                        after[job_id].progress_percent = jobs[job_id].progress_percent
                 /\ total_chunks = Omitted =>
                        after[job_id].total_chunks = jobs[job_id].total_chunks
                 /\ completed_chunks = Omitted =>
                        after[job_id].completed_chunks = jobs[job_id].completed_chunks
                 /\ error_message = Omitted =>
                        after[job_id].error_message = jobs[job_id].error_message
                 /\ after[job_id].completed_chunk_ids = jobs[job_id].completed_chunk_ids
                 /\ after[job_id].options = jobs[job_id].options
                 /\ after[job_id].file_path = jobs[job_id].file_path

\* C12 witness: a record in which every field has been given a value of its
\* own, and a job id without a record
C12_Witness ==
    /\ \E j \in DOMAIN jobs :
          /\ jobs[j].status = "failed"
          /\ jobs[j].progress_percent > 0
          /\ jobs[j].total_chunks > 0
          /\ jobs[j].completed_chunks > 0
          /\ jobs[j].error_message # None
          /\ jobs[j].completed_chunk_ids # <<>>
    /\ JobIds \ DOMAIN jobs # {}

\* C13: started_at is set by the first write of status running and
\* completed_at by the first write of a terminal status; no later status
\* write changes either timestamp.
C13_TimestampsSetOnce ==
    [][\A j \in DOMAIN jobs \cap DOMAIN jobs' :
          /\ jobs'[j].status = "running" => jobs'[j].started_at # 0
          /\ jobs'[j].status \in {"completed", "failed", "cancelled"} => jobs'[j].completed_at # 0
          /\ jobs[j].started_at # 0 => jobs'[j].started_at = jobs[j].started_at
          /\ jobs[j].completed_at # 0 => jobs'[j].completed_at = jobs[j].completed_at]_vars

\* ---- stream_progress, async_processor.py 693-756 ----
SubIds == 1..MaxSubs

TerminalStages == {"completed", "failed", "cancelled"}

\* 716-722: the stage shown for a job status in the initial snapshot
stage_map(status) ==
    CASE status = "pending" -> "parsing"
      [] status = "running" -> "extracting"
      [] status = "completed" -> "completed"
      [] status = "failed" -> "failed"
      [] status = "cancelled" -> "cancelled"
      [] OTHER -> "parsing"

\* 701-731: the generator runs to its first suspension: the queue is made,
\* the callback registered, the job read and, when it exists, the snapshot
\* yielded; without a job it goes straight to waiting on the queue
subscribe(job_id) ==
    /\ phase = "serving" /\ loop = 0
    /\ Len(subs) < MaxSubs
    /\ LET s == Len(subs) + 1
           job == get_job(jobs, job_id)
       IN /\ progress_callbacks' = [progress_callbacks EXCEPT ![job_id] = Append(@, s)]
          /\ subs' = Append(subs,
                        [job |-> job_id,
                         pc |-> IF job # <<>> THEN "snapshot" ELSE "wait",
                         queue |-> <<>>,
                         snapshot |-> IF job # <<>>           \* the initial event, as a list of one, else empty
                                      THEN <<[stage |-> stage_map(job[1].status),
                                              progress |-> job[1].progress]>>
                                      ELSE <<>>,
                         at |-> written[job_id],          \* history: the fraction last written when the job was read
                         first |-> emitted[job_id] + 1,   \* history: number of the first event emitted after the registration
                         yielded |-> <<>>])               \* history: the events yielded
    /\ UNCHANGED <<jobs, uuid, active_jobs, cancelled_jobs, runs, next_run, loop, phase, restarts, pool, xp,
                   cancelHist, interrupted, marked, emitted>>
    /\ unchanged_stores

\* subscription s is suspended at pcv and the event loop is free to run it
Suspended(s, pcv) ==
    /\ phase = "serving" /\ loop = 0
    /\ s \in DOMAIN subs
    /\ subs[s].pc = pcv

\* 750-755: the finally clause
Finally(s) ==
    /\ progress_callbacks' = [progress_callbacks EXCEPT ![subs[s].job] = SelectSeqBy(@, {s})]
    /\ subs' = [subs EXCEPT ![s].pc = "ended"]

unchanged_pipeline ==
    UNCHANGED <<jobs, uuid, active_jobs, cancelled_jobs, runs, next_run, loop, phase, restarts, pool, xp,
                cancelHist, interrupted, marked, emitted, stored, sent, deleted, written>>

\* 736-737: queue.get() returns the oldest event, which is yielded
sub_get(s) ==
    /\ Suspended(s, "wait")
    /\ subs[s].queue # <<>>
    /\ subs' = [subs EXCEPT ![s].queue = Tail(@),
                            ![s].yielded = Append(@, Head(subs[s].queue)),
                            ![s].pc = "update"]
    /\ UNCHANGED progress_callbacks
    /\ unchanged_pipeline

\* 736, 742-744: the queue stayed empty for 30 seconds; the keepalive is yielded
sub_timeout(s) ==
    /\ Suspended(s, "wait")
    /\ subs[s].queue = <<>>
    /\ subs' = [subs EXCEPT ![s].pc = "keepalive"]
    /\ UNCHANGED progress_callbacks
    /\ unchanged_pipeline

\* the consumer asks for the next item: the generator goes on after its yield
\* (731 -> 734; 737-741; 744-748) up to queue.get() or through the finally clause
sub_resume(s) ==
    /\ phase = "serving" /\ loop = 0
    /\ s \in DOMAIN subs
    /\ subs[s].pc \in {"snapshot", "update", "keepalive"}
    /\ LET job == get_job(jobs, subs[s].job)
           break == CASE subs[s].pc = "update" ->
                           subs[s].yielded[Len(subs[s].yielded)].stage \in TerminalStages
                      [] subs[s].pc = "keepalive" ->
                           job = <<>> \/ job[1].status \in {"completed", "failed", "cancelled"}
                      [] OTHER -> FALSE
       IN IF break
          THEN Finally(s)
          ELSE subs' = [subs EXCEPT ![s].pc = "wait"] /\ UNCHANGED progress_callbacks
    /\ unchanged_pipeline

\* _update_progress 472-476 on a pool thread: one turn of the for loop over
\* the list as it is now (a list iterator holds an index into the list)
notify(r) ==
    /\ Ready(r, "notify")
    /\ LET callbacks == progress_callbacks[runs[r].job] IN
       IF runs[r].ci < Len(callbacks)
       THEN /\ subs' = [subs EXCEPT ![callbacks[runs[r].ci + 1]].queue = Append(@, runs[r].note)]
            /\ runs' = [runs EXCEPT ![r].ci = @ + 1]
       ELSE /\ runs' = [runs EXCEPT ![r].pc = runs[r].after, ![r].after = None,
                                    ![r].ci = 0, ![r].note = None]
            /\ UNCHANGED subs
    /\ UNCHANGED <<jobs, loop, progress_callbacks, emitted>>
    /\ unchanged_process /\ unchanged_history /\ unchanged_stores

\* one document, its pipeline executions and the subscriptions to its feed
\* within one process lifetime
NextFeed ==
    \/ \E file_path \in Files, create_graph \in BOOLEAN :
         uuid = 0 /\ start_processing(file_path, create_graph)
    \/ \E r \in RunIds : PipelineStep(r)
    \/ \E r \in RunIds : notify(r)
    \/ \E r \in RunIds : handle_completion_task(r)
    \/ \E r \in RunIds : handle_completion(r)
    \/ \E job_id \in 1..uuid : cancel_job(job_id)
    \/ \E job_id \in 1..uuid :
         (\A q \in DOMAIN runs : runs[q].job # job_id) /\ resume_job(job_id)
    \/ lifespan
    \/ \E job_id \in 1..uuid : subscribe(job_id)
    \/ \E s \in SubIds : sub_get(s)
    \/ \E s \in SubIds : sub_timeout(s)
    \/ \E s \in SubIds : sub_resume(s)

SpecFeed == Init /\ [][NextFeed]_vars

\* subscription s has yielded exactly the events numbered first, first + 1, ...
InEmissionOrder(s) ==
    \A k \in 1..Len(subs[s].yielded) : subs[s].yielded[k].n = subs[s].first + k - 1

\* subscription s ended with a terminal event
EndedOnEvent(s) ==
    /\ subs[s].pc = "ended"
    /\ subs[s].yielded # <<>>
    /\ subs[s].yielded[Len(subs[s].yielded)].stage \in TerminalStages

\* C14: a subscription yields the snapshot and then every event emitted for
\* its job after it began, in emission order: what it has yielded are the
\* events numbered from its first one on without a gap, and it never ends
\* with an event still in its queue that precedes the end of the job's feed
C14_EveryEventYielded ==
    \A s \in DOMAIN subs :
        /\ InEmissionOrder(s)
        /\ (subs[s].pc = "ended" /\ ~EndedOnEvent(s)) => subs[s].queue = <<>>

\* subscription s is bound to end without any further write or event: it
\* has ended, a terminal event is on its way to the terminal-stage check, or
\* its keepalive check will read a terminal status (or no job)
BoundToEnd(s) ==
    \/ subs[s].pc = "ended"
    \/ \E k \in 1..Len(subs[s].queue) : subs[s].queue[k].stage \in TerminalStages
    \/ /\ subs[s].pc = "update"
       /\ subs[s].yielded[Len(subs[s].yielded)].stage \in TerminalStages
    \/ subs[s].job \notin DOMAIN jobs
    \/ jobs[subs[s].job].status \in {"completed", "failed", "cancelled"}

\* C15: a subscription ends on its own once its job is terminal, also when
\* the job was cancelled and no terminal event is emitted: when cancel_job
\* has cancelled the job (and nobody resumed it) and no pipeline execution
\* of the job is left to write or emit anything, every subscription to the
\* job is bound to end
C15_CancelledFeedEnds ==
    \A s \in DOMAIN subs :
        ( /\ cancelHist[subs[s].job] = "cancelled"
          /\ subs[s].job \notin active_jobs
          /\ \A q \in DOMAIN runs : runs[q].job # subs[s].job )
        => BoundToEnd(s)

\* cleanup_old_jobs 520: cursor.rowcount, the number of rows deleted
cleanup_count(J, old) ==
    Cardinality(DOMAIN J) - Cardinality(DOMAIN cleanup_old_jobs(J, old))

\* C16: cleanup_old_jobs deletes exactly the completed, failed and cancelled
\* jobs older than the retention window and returns their number: whatever
\* the jobs table holds and whichever jobs of an earlier process lifetime
\* the window leaves out, the rows that remain are the other jobs,
\* untouched, and the count is the number of rows gone
C16_CleanupDeletesTerminalOld ==
    \A old \in SUBSET {j \in DOMAIN jobs : jobs[j].created_at < utcnow} :
        LET terminal_old == {j \in old : jobs[j].status \in {"completed", "failed", "cancelled"}}
            after == cleanup_old_jobs(jobs, old)
        IN /\ DOMAIN after = DOMAIN jobs \ terminal_old
           /\ \A j \in DOMAIN after : after[j] = jobs[j]
           /\ cleanup_count(jobs, old) = Cardinality(terminal_old)

\* ---- the worker pool, async_processor.py 100, 259-266, 677-683 ----
\* concurrent.futures.ThreadPoolExecutor as configured at 100: submit puts
\* the request into the work queue and then starts a thread only when no
\* idle worker is there to claim and fewer than max_workers threads exist
adjust_thread_count_unbounded(P) ==
    IF P.idle > 0 THEN [P EXCEPT !.idle = @ - 1]
    ELSE [P EXCEPT !.threads = @ + 1, !.looking = @ + 1]

adjust_thread_count(P) ==
    IF P.idle > 0 THEN [P EXCEPT !.idle = @ - 1]
    ELSE IF P.threads < MAX_WORKERS THEN [P EXCEPT !.threads = @ + 1, !.looking = @ + 1]
    ELSE P

submit(P, kind) ==
    adjust_thread_count([P EXCEPT !.queue = Append(@, kind), !.submitted = @ + 1])

unchanged_but_pool ==
    UNCHANGED <<jobs, uuid, active_jobs, cancelled_jobs, runs, next_run, loop, phase, restarts,
                cancelHist, interrupted, marked, progress_callbacks, subs, emitted, xp,
                stored, sent, deleted, written>>

\* _process_async 259-266: run_in_executor(self._executor, self._parse_xml_sync, ...)
run_in_executor_parse ==
    /\ pool.submitted < MaxRequests
    /\ pool' = submit(pool, "parse")
    /\ unchanged_but_pool

\* resume_job 677-683: run_in_executor(self._executor, self._process_sync, ...)
run_in_executor_sync ==
    /\ pool.submitted < MaxRequests
    /\ pool' = submit(pool, "sync")
    /\ unchanged_but_pool

\* a worker takes the oldest request: one that was about to look into the
\* queue, or one that was waiting on it
worker_take(from) ==
    /\ pool[from] > 0
    /\ pool.queue # <<>>
    /\ LET to == IF Head(pool.queue) = "parse" THEN "parsing" ELSE "sync_parsing" IN
       pool' = [pool EXCEPT ![from] = @ - 1, ![to] = @ + 1,
                            !.queue = Tail(@), !.started = @ + 1]
    /\ unchanged_but_pool

\* a worker finds the queue empty, raises the idle semaphore and waits
worker_wait ==
    /\ pool.looking > 0
    /\ pool.queue = <<>>
    /\ pool' = [pool EXCEPT !.looking = @ - 1, !.blocked = @ + 1, !.idle = @ + 1]
    /\ unchanged_but_pool

\* _parse_xml_sync 322-336 returns (or raises): the worker is free again
parse_done ==
    /\ pool.parsing > 0
    /\ pool' = [pool EXCEPT !.parsing = @ - 1, !.looking = @ + 1, !.finished = @ + 1]
    /\ unchanged_but_pool

\* _process_sync 360-375: the extraction, run inline on the worker, is over
sync_parsed ==
    /\ pool.sync_parsing > 0
    /\ pool' = [pool EXCEPT !.sync_parsing = @ - 1, !.sync_storing = @ + 1]
    /\ unchanged_but_pool

\* _process_sync 377-430 returns (or raises): the worker is free again
sync_done ==
    /\ pool.sync_storing > 0
    /\ pool' = [pool EXCEPT !.sync_storing = @ - 1, !.looking = @ + 1, !.finished = @ + 1]
    /\ unchanged_but_pool

WorkerStep ==
    \/ \E from \in {"looking", "blocked"} : worker_take(from)
    \/ worker_wait
    \/ parse_done
    \/ sync_parsed
    \/ sync_done

NextPool ==
    \/ run_in_executor_parse
    \/ run_in_executor_sync
    \/ WorkerStep

\* workers go on running, and every extraction and every pipeline comes to an end
SpecPool == Init /\ [][NextPool]_vars /\ WF_vars(WorkerStep)

\* the extractions running now
Extracting == pool.parsing + pool.sync_parsing

\* the workers holding a request
Busy == pool.parsing + pool.sync_parsing + pool.sync_storing

unchanged_but_xp ==
    UNCHANGED <<jobs, uuid, active_jobs, cancelled_jobs, runs, next_run, loop, phase, restarts,
                cancelHist, interrupted, marked, progress_callbacks, subs, emitted, pool,
                stored, sent, deleted, written>>

\* 207-209: f"{entity_type.value}:{identifier}"
generate_entity_id(entity_type, identifier) == <<entity_type, identifier>>

\* 326, 343, 353: f"{entity_id}:chunk:{i}"
chunk_id(entity_id, i) == <<entity_id, "chunk", i>>

\* a text is its list of whitespace tokens, numbered from 0; a chunk holds
\* the tokens start .. end - 1 of its text
ExtractedChunk(entity_id, i, total, start, end) ==
    [id |-> chunk_id(entity_id, i), entity_id |-> entity_id,
     chunk_index |-> i, total_chunks |-> total, start |-> start, end |-> end]

RECURSIVE chunk_contents_disjoint(_, _, _, _)
chunk_contents_disjoint(N, chunk_size, chunk_overlap, start) ==
    LET end == start + chunk_size IN
    IF end >= N THEN <<[start |-> start, end |-> Min(end, N)]>>
    ELSE <<[start |-> start, end |-> end]>>
         \o chunk_contents_disjoint(N, chunk_size, chunk_overlap, start + chunk_size)

RECURSIVE chunk_contents(_, _, _, _)
\* 344-352: the while loop from `start` on, N > start: tokens[start:end] is
\* taken, the loop ends when end >= N, else start advances by
\* chunk_size - chunk_overlap (which must be positive for the loop to end)
chunk_contents(N, chunk_size, chunk_overlap, start) ==
    LET end == start + chunk_size IN
    IF end >= N THEN <<[start |-> start, end |-> Min(end, N)]>>
    ELSE <<[start |-> start, end |-> end]>>
         \o chunk_contents(N, chunk_size, chunk_overlap, start + chunk_size - chunk_overlap)

\* 322-370, for a text of N tokens
_chunk_text(N, entity_id, chunk_size, chunk_overlap) ==
    IF N <= chunk_size
    THEN <<ExtractedChunk(entity_id, 0, 1, 0, N)>>
    ELSE LET contents == chunk_contents(N, chunk_size, chunk_overlap, 0) IN
         [k \in 1..Len(contents) |->
             ExtractedChunk(entity_id, k - 1, Len(contents), contents[k].start, contents[k].end)]

\* __init__ 164-195, with chunk_overlap < chunk_size
new_processor(chunk_size, chunk_overlap) ==
    /\ xp.pc = "none"
    /\ chunk_overlap < chunk_size
    /\ xp' = [NoProcessor EXCEPT !.pc = "idle",
                                 !.chunk_size = chunk_size, !.chunk_overlap = chunk_overlap]
    /\ unchanged_but_xp

\* _chunk_text applied to a text of N tokens of one entity
chunk_text(N) ==
    /\ xp.pc = "idle"
    /\ xp' = [xp EXCEPT !.tokens = N,
                        !._chunks = _chunk_text(N, generate_entity_id("gefaehrdung", "G0.1"),
                                                xp.chunk_size, xp.chunk_overlap)]
    /\ unchanged_but_xp

NextChunk ==
    \/ \E chunk_size \in 1..MaxChunkSize, chunk_overlap \in 0..MaxChunkSize :
         new_processor(chunk_size, chunk_overlap)
    \/ \E N \in 0..MaxTokens : chunk_text(N)

SpecChunk == Init /\ [][NextChunk]_vars

\* the token positions of a chunk
Window(c) == c.start .. (c.end - 1)

\* C18: for N tokens and chunk_overlap < chunk_size, N <= chunk_size gives
\* exactly one chunk; otherwise the windows cover [0, N), each window but
\* the last has chunk_size tokens, consecutive windows share exactly
\* chunk_overlap tokens, and chunk_index runs 0 .. total_chunks - 1 in
\* window order
C18_ChunkWindows ==
    LET c == xp._chunks
        N == xp.tokens
    IN c # <<>> =>
       /\ N <= xp.chunk_size => Len(c) = 1
       /\ N > xp.chunk_size =>
            /\ UNION {Window(c[k]) : k \in 1..Len(c)} = 0 .. (N - 1)
            /\ \A k \in 1..(Len(c) - 1) :
                 /\ Cardinality(Window(c[k])) = xp.chunk_size
                 /\ Cardinality(Window(c[k]) \cap Window(c[k + 1])) = xp.chunk_overlap
                 /\ c[k].start < c[k + 1].start
            /\ Window(c[Len(c)]) # {}
       /\ \A k \in 1..Len(c) : c[k].chunk_index = k - 1 /\ c[k].total_chunks = Len(c)

\* a text cut into at least three windows that overlap, the last one short
C18_Witness ==
    /\ Len(xp._chunks) >= 3
    /\ xp.chunk_overlap > 0
    /\ xp.tokens > xp.chunk_size
    /\ Cardinality(Window(xp._chunks[Len(xp._chunks)])) < xp.chunk_size

\* ---- process_file, xml_processor.py 666-763 ----
\* A file is a chapter of Baustein sections without glossary, threats,
\* roles or standard references.  A section is its Baustein code, the token
\* counts of its subsections titled Beschreibung, Einleitung or Zielsetzung,
\* in document order, and its requirement sections, in document order.
BausteinCodes == {<<"APP", "1">>, <<"SYS", "1">>}

\* a text that fits into one chunk and one that does not
TextLengths(chunk_size) == {chunk_size, chunk_size + 1}

DescriptionParts(chunk_size) ==
    {<<>>} \cup {<<a>> : a \in TextLengths(chunk_size)}
           \cup {<<a, b>> : a \in TextLengths(chunk_size), b \in TextLengths(chunk_size)}

Sections(chunk_size) ==
    {[code |-> code, desc |-> desc, reqs |-> <<>>] :
        code \in BausteinCodes, desc \in DescriptionParts(chunk_size)}

\* 311-318: the layer of a Baustein code, the part before the first dot
_detect_schicht(baustein_code) == baustein_code[1]

reset_state_kept(X) == X

\* 675-679: process_file starts from empty lists
reset_state(X) == [X EXCEPT !._entities = <<>>, !._relationships = <<>>, !._chunks = <<>>]

RECURSIVE description_chunks(_, _, _, _)
\* 477-489: every description subsection is chunked under the entity id of
\* the Baustein and the chunks are appended
description_chunks(desc, entity_id, chunk_size, chunk_overlap) ==
    IF desc = <<>> THEN <<>>
    ELSE _chunk_text(Head(desc), entity_id, chunk_size, chunk_overlap)
         \o description_chunks(Tail(desc), entity_id, chunk_size, chunk_overlap)

\* 241-243: "ENTFALLEN" in title or "Diese Anforderung ist entfallen" in
\* content; a requirement section carries the marker in its title, in its
\* body or nowhere
_is_discontinued(marker) == marker = "title" \/ marker = "body"

chunks_unless_discontinued(track_discontinued, is_discontinued) == ~is_discontinued

\* 592: if not (self.track_discontinued and is_discontinued)
chunks_wanted(track_discontinued, is_discontinued) == ~(track_discontinued /\ is_discontinued)

\* a cross-reference is the code that follows "siehe": a Baustein code, or a
\* Baustein code and a requirement part
has_A_part(cross_ref) == Len(cross_ref) = 3

cross_reference_target_baustein(cross_ref) == generate_entity_id("baustein", cross_ref)

\* 555-560: the id a cross-reference points at
cross_reference_target(cross_ref) ==
    IF has_A_part(cross_ref) THEN generate_entity_id("anforderung", cross_ref)
    ELSE generate_entity_id("baustein", cross_ref)

\* 554-566: one REFERENCES relationship per cross-reference, in text order
reference_relationships(entity_id, refs) ==
    [k \in 1..Len(refs) |-> <<entity_id, cross_reference_target(refs[k]), "REFERENCES">>]

RECURSIVE _process_anforderungen(_, _, _)
\* 491-598: the requirement sections of a Baustein, in document order
_process_anforderungen(X, reqs, baustein_entity_id) ==
    IF reqs = <<>> THEN X
    ELSE LET req == Head(reqs)
             is_discontinued == _is_discontinued(req.marker)
             entity_id == generate_entity_id("anforderung", req.code)
             Y == [X EXCEPT
                     !._entities = Append(@, [id |-> entity_id, type |-> "anforderung",
                                              schicht |-> None,
                                              parent_id |-> baustein_entity_id,
                                              status |-> IF X.track_discontinued /\ is_discontinued
                                                         THEN "entfallen" ELSE None]),
                     !._relationships = Append(@, <<entity_id, baustein_entity_id, "BELONGS_TO">>)
                                        \o reference_relationships(entity_id, req.refs),
                     !._chunks = IF chunks_wanted(X.track_discontinued, is_discontinued)
                                 THEN @ \o _chunk_text(req.tokens, entity_id,
                                                       X.chunk_size, X.chunk_overlap)
                                 ELSE @]
         IN _process_anforderungen(Y, Tail(reqs), baustein_entity_id)

\* 422-489
_process_baustein_section(X, section) ==
    LET entity_id == generate_entity_id("baustein", section.code)
        schicht_id == generate_entity_id("schicht", _detect_schicht(section.code))
        Y == [X EXCEPT
                !._entities = Append(@, [id |-> entity_id, type |-> "baustein",
                                         schicht |-> _detect_schicht(section.code),
                                         parent_id |-> schicht_id, status |-> None]),
                !._relationships = Append(@, <<entity_id, schicht_id, "BELONGS_TO">>)]
        Z == _process_anforderungen(Y, section.reqs, entity_id)
    IN [Z EXCEPT
          !._chunks = @ \o description_chunks(section.desc, entity_id,
                                              X.chunk_size, X.chunk_overlap)]

\* 600-621: schicht_codes is a set; its iteration order is any order
_create_schicht_entities(X, order) ==
    [X EXCEPT !._entities =
        @ \o [k \in 1..Len(order) |->
                [id |-> generate_entity_id("schicht", order[k]), type |-> "schicht",
                 schicht |-> None, parent_id |-> None, status |-> None]]]

\* the orders in which a set can be iterated
Orders(S) ==
    {o \in [1..Cardinality(S) -> S] : \A a, b \in 1..Cardinality(S) : o[a] = o[b] => a = b}

\* 675-679: a call of process_file begins
begin_process_file ==
    /\ xp.pc = "idle"
    /\ xp' = [reset_state(xp) EXCEPT !.pc = "chapters", !.file = <<>>, !.result = <<>>,
                                     !.reused = xp.result # <<>>]
    /\ unchanged_but_xp

\* 690-704: the next Baustein section of the file
process_section(section) ==
    /\ xp.pc = "chapters"
    /\ Len(xp.file) < MaxSections
    /\ xp' = [_process_baustein_section(xp, section) EXCEPT !.file = Append(@, section)]
    /\ unchanged_but_xp

\* 719-763: the file has no more sections; the layers are added and the
\* result is returned
end_process_file ==
    /\ xp.pc = "chapters"
    /\ LET schicht_codes == {xp._entities[k].schicht : k \in
                               {q \in 1..Len(xp._entities) : xp._entities[q].type = "baustein"}}
       IN \E order \in Orders(schicht_codes) :
            LET X == _create_schicht_entities(xp, order) IN
            xp' = [X EXCEPT !.pc = "idle",
                            !.result = <<[entities |-> X._entities,
                                          relationships |-> X._relationships,
                                          chunks |-> X._chunks]>>]
    /\ unchanged_but_xp

NextXml ==
    \/ \E chunk_size \in 1..MaxChunkSize, chunk_overlap \in 0..MaxChunkSize :
         new_processor(chunk_size, chunk_overlap)
    \/ begin_process_file
    \/ \E section \in Sections(xp.chunk_size) : process_section(section)
    \/ end_process_file

SpecXml == Init /\ [][NextXml]_vars

\* C19: any two different chunks of one extraction result have different
\* ids, also when an entity's chunks come from more than one section
C19_ChunkIdsDistinct ==
    xp.result # <<>> =>
        \A a, b \in 1..Len(xp.result[1].chunks) :
            xp.result[1].chunks[a].id = xp.result[1].chunks[b].id => a = b

\* what a file holds: its Bausteine and their layers, the membership of each
\* Baustein in its layer, and the chunks of every description text
FileEntityIds(file) ==
    {generate_entity_id("baustein", file[k].code) : k \in 1..Len(file)}
    \cup {generate_entity_id("schicht", _detect_schicht(file[k].code)) : k \in 1..Len(file)}

FileTriples(file) ==
    {<<generate_entity_id("baustein", file[k].code),
       generate_entity_id("schicht", _detect_schicht(file[k].code)), "BELONGS_TO">> :
        k \in 1..Len(file)}

FileChunkIds(file, chunk_size, chunk_overlap) ==
    UNION {UNION {{chunk_id(generate_entity_id("baustein", file[k].code), i) :
                      i \in 0..(Len(_chunk_text(file[k].desc[p], "e", chunk_size, chunk_overlap)) - 1)} :
                  p \in 1..Len(file[k].desc)} :
           k \in 1..Len(file)}

\* C20: the entity ids, the relationship triples and the chunk ids that
\* process_file returns are those of the file it was given, whatever an
\* earlier call on the same processor left behind and in whatever order the
\* layers were visited
C20_ResultOfFileAlone ==
    xp.result # <<>> =>
        /\ {xp.result[1].entities[k].id : k \in 1..Len(xp.result[1].entities)} = FileEntityIds(xp.file)
        /\ {xp.result[1].relationships[k] : k \in 1..Len(xp.result[1].relationships)} = FileTriples(xp.file)
        /\ {xp.result[1].chunks[k].id : k \in 1..Len(xp.result[1].chunks)}
             = FileChunkIds(xp.file, xp.chunk_size, xp.chunk_overlap)

\* a second call on a processor has returned the result of a file with
\* Bausteine of two layers, the later layer visited first
C20_Witness ==
    /\ xp.result # <<>>
    /\ xp.reused
    /\ Len(xp.file) >= 2
    /\ xp.result[1].chunks # <<>>
    /\ \E a, b \in 1..Len(xp.result[1].entities) :
         /\ a < b
         /\ xp.result[1].entities[a].id = generate_entity_id("schicht", "SYS")
         /\ xp.result[1].entities[b].id = generate_entity_id("schicht", "APP")

\* ---- requirements, xml_processor.py 491-598 ----
\* __init__ 164-195 with the track_discontinued option given
new_processor_tracking(chunk_size, chunk_overlap, track_discontinued) ==
    /\ xp.pc = "none"
    /\ chunk_overlap < chunk_size
    /\ xp' = [NoProcessor EXCEPT !.pc = "idle",
                                 !.chunk_size = chunk_size, !.chunk_overlap = chunk_overlap,
                                 !.track_discontinued = track_discontinued]
    /\ unchanged_but_xp

\* 503-507: the code of the k-th requirement of a Baustein
anf_code(baustein_code, k) == Append(baustein_code, <<"A", k>>)

\* 527: the cross-references of a requirement's text, in text order: none, a
\* Baustein and a requirement that the file does not have, or the Baustein
\* itself and its first requirement
CrossReferences(baustein_code) ==
    {<<>>,
     <<<<"ORP", "2">>, anf_code(baustein_code, MaxReqs + 1)>>,
     <<baustein_code, anf_code(baustein_code, 1)>>}

Markers == {"none", "title", "body"}

\* the requirement sections a Baustein can have: up to MaxReqs, numbered
\* A1, A2, ... in document order
Anforderungen(baustein_code, chunk_size) ==
    UNION {[1..n -> [marker : Markers, tokens : TextLengths(chunk_size),
                     refs : CrossReferences(baustein_code)]] : n \in 0..MaxReqs}

\* a Baustein section with one description subsection and requirements
SectionsWithAnforderungen(chunk_size) ==
    {[code |-> <<"APP", "1">>, desc |-> <<chunk_size>>,
      reqs |-> [k \in DOMAIN rs |->
                   [code |-> anf_code(<<"APP", "1">>, k), marker |-> rs[k].marker,
                    tokens |-> rs[k].tokens, refs |-> rs[k].refs]]] :
        rs \in Anforderungen(<<"APP", "1">>, chunk_size)}

\* process_file on files of one Baustein section
NextAnf ==
    \/ \E chunk_size \in 1..MaxChunkSize, chunk_overlap \in 0..MaxChunkSize,
          track_discontinued \in BOOLEAN :
         new_processor_tracking(chunk_size, chunk_overlap, track_discontinued)
    \/ begin_process_file
    \/ /\ xp.pc = "chapters" /\ xp.file = <<>>
       /\ \E section \in SectionsWithAnforderungen(xp.chunk_size) : process_section(section)
    \/ end_process_file

SpecAnf == Init /\ [][NextAnf]_vars

\* the requirements of the file read by the current process_file call
FileAnforderungen ==
    {xp.file[s].reqs[k] : <<s, k>> \in {p \in (1..Len(xp.file)) \X (1..MaxReqs + 1) :
                                           p[2] <= Len(xp.file[p[1]].reqs)}}

\* the chunks of the result that belong to entity_id, in result order
RECURSIVE ChunksOf(_, _)
ChunksOf(chunks, entity_id) ==
    IF chunks = <<>> THEN <<>>
    ELSE IF Head(chunks).entity_id = entity_id
         THEN <<Head(chunks)>> \o ChunksOf(Tail(chunks), entity_id)
         ELSE ChunksOf(Tail(chunks), entity_id)

ResultEntityIds == {xp.result[1].entities[k].id : k \in 1..Len(xp.result[1].entities)}

\* C21: every requirement of the file, marked discontinued or not, is in the
\* entity list of the result; a marked one has no chunk in the result when
\* track_discontinued is true, and when it is false it has exactly the chunks
\* of its text, as an unmarked requirement with the same text has
C21_DiscontinuedPolicy ==
    xp.result # <<>> =>
        \A req \in FileAnforderungen :
            LET entity_id == generate_entity_id("anforderung", req.code)
                mine == ChunksOf(xp.result[1].chunks, entity_id)
                of_text == _chunk_text(req.tokens, entity_id, xp.chunk_size, xp.chunk_overlap)
            IN /\ entity_id \in ResultEntityIds
               /\ (req.marker # "none" /\ xp.track_discontinued) => mine = <<>>
               /\ (req.marker # "none" /\ ~xp.track_discontinued) => mine = of_text
               /\ req.marker = "none" => mine = of_text

\* C21 witness: without tracking, a result with a requirement marked in its
\* title and one marked in its body, one of them chunked into several chunks
C21_Witness ==
    /\ xp.result # <<>>
    /\ ~xp.track_discontinued
    /\ \E a, b \in FileAnforderungen : a.marker = "title" /\ b.marker = "body"
    /\ \E req \in FileAnforderungen :
         /\ req.marker # "none"
         /\ Len(ChunksOf(xp.result[1].chunks, generate_entity_id("anforderung", req.code))) > 1

ResultRelationships == {xp.result[1].relationships[k] : k \in 1..Len(xp.result[1].relationships)}

\* C23: every cross-reference of a requirement's text is in the result as a
\* REFERENCES relationship from the requirement to the requirement id of the
\* code when it has an .A part and to the Baustein id otherwise, whether or
\* not an entity with that id was extracted; every BELONGS_TO relationship
\* points at an entity of the result
C23_ReferencesKept ==
    xp.result # <<>> =>
        /\ \A req \in FileAnforderungen : \A k \in 1..Len(req.refs) :
              LET ref == req.refs[k]
                  target == IF Len(ref) = 3 THEN <<"anforderung", ref>> ELSE <<"baustein", ref>>
              IN <<generate_entity_id("anforderung", req.code), target, "REFERENCES">>
                     \in ResultRelationships
        /\ \A triple \in ResultRelationships :
              /\ triple[3] = "BELONGS_TO" => triple[2] \in ResultEntityIds
              /\ triple[3] = "REFERENCES" =>
                    \E req \in FileAnforderungen :
                        /\ triple[1] = generate_entity_id("anforderung", req.code)
                        /\ \E k \in 1..Len(req.refs) : triple[2][2] = req.refs[k]

\* C23 witness: the result holds a reference to a Baustein and one to a
\* requirement that were not extracted, and one whose target was extracted
C23_Witness ==
    /\ xp.result # <<>>
    /\ \E a, b, c \in ResultRelationships :
         /\ a[3] = "REFERENCES" /\ a[2][1] = "baustein" /\ a[2] \notin ResultEntityIds
         /\ b[3] = "REFERENCES" /\ b[2][1] = "anforderung" /\ b[2] \notin ResultEntityIds
         /\ c[3] = "REFERENCES" /\ c[2] \in ResultEntityIds
    /\ \E triple \in ResultRelationships : triple[3] = "BELONGS_TO" /\ triple[2][1] = "schicht"

\* ---- a processing request and the chunking loop it leads to ----
\* the values a caller may send: each limit, its neighbours, and two values inside
RequestedChunkSizes ==
    {chunk_size_ge - 1, chunk_size_ge, chunk_size_ge + 1, chunk_overlap_le, chunk_size_le,
     chunk_size_le + 1}

RequestedChunkOverlaps ==
    {chunk_overlap_ge - 1, chunk_overlap_ge, chunk_overlap_ge + 1, chunk_size_ge - 1,
     chunk_size_ge, chunk_size_ge + 1, chunk_overlap_le, chunk_overlap_le + 1}

\* schemas/xml.py 61-62, api/xml.py 119-120: each field is checked against
\* its own limits (ge, le); nothing compares the two fields
options_valid(chunk_size, chunk_overlap) ==
    /\ chunk_size_ge <= chunk_size /\ chunk_size <= chunk_size_le
    /\ chunk_overlap_ge <= chunk_overlap /\ chunk_overlap <= chunk_overlap_le

\* api/xml.py 116-176 (and 82-113): a request that passes validation is
\* accepted; start_processing leads to _parse_xml_sync (async_processor.py
\* 322-336), which constructs the processor with the request's options
upload_and_process_xml(chunk_size, chunk_overlap) ==
    /\ xp.pc = "none"
    /\ options_valid(chunk_size, chunk_overlap)
    /\ xp' = [NoProcessor EXCEPT !.pc = "idle",
                                 !.chunk_size = chunk_size, !.chunk_overlap = chunk_overlap]
    /\ unchanged_but_xp

\* _chunk_text 322-345 for a text of N tokens: the single chunk, or the
\* while loop is entered
chunk_text_enter(N) ==
    /\ xp.pc = "idle"
    /\ xp.tokens = 0
    /\ xp' = IF N <= xp.chunk_size
             THEN [xp EXCEPT !.tokens = N, !.pc = "chunked",
                             !._chunks = _chunk_text(N, generate_entity_id("gefaehrdung", "G0.1"),
                                                     xp.chunk_size, xp.chunk_overlap)]
             ELSE [xp EXCEPT !.tokens = N, !.pc = "while", !.start = 0, !.chunk_contents = <<>>]
    /\ unchanged_but_xp

\* 346-353: one iteration of the while loop; 355-368 when it is left
chunk_text_iteration ==
    /\ xp.pc = "while"
    /\ Len(xp.chunk_contents) < MaxIterations
    /\ IF xp.start < xp.tokens
       THEN LET end == xp.start + xp.chunk_size
                contents == Append(xp.chunk_contents, [start |-> xp.start, end |-> end])
            IN xp' = IF end >= xp.tokens
                     THEN [xp EXCEPT !.chunk_contents = contents, !.pc = "chunked",
                                     !._chunks = [k \in 1..Len(contents) |->
                                         ExtractedChunk(generate_entity_id("gefaehrdung", "G0.1"),
                                                        k - 1, Len(contents), contents[k].start,
                                                        Min(contents[k].end, xp.tokens))]]
                     ELSE [xp EXCEPT !.chunk_contents = contents,
                                     !.start = @ + xp.chunk_size - xp.chunk_overlap]
       ELSE xp' = [xp EXCEPT !.pc = "chunked"]
    /\ unchanged_but_xp

\* texts of up to MaxIterations - 2 tokens more than fit into one chunk
NextRequest ==
    \/ \E chunk_size \in RequestedChunkSizes, chunk_overlap \in RequestedChunkOverlaps :
         upload_and_process_xml(chunk_size, chunk_overlap)
    \/ \E more \in 0..(MaxIterations - 2) : chunk_text_enter(xp.chunk_size + more)
    \/ chunk_text_iteration

SpecRequest == Init /\ [][NextRequest]_vars

C24_MarkedOnlyAfterStored ==
    /\ \A j \in DOMAIN jobs : \A k \in 1..Len(jobs[j].completed_chunk_ids) :
          <<j, jobs[j].completed_chunk_ids[k]>> \in stored
    /\ \A r \in DOMAIN runs :
          /\ runs[r].pc \in {"mark_select", "mark_update"} =>
                <<runs[r].job, batch_of(runs[r].todo, runs[r].i)[runs[r].m]>> \in stored
          /\ runs[r].pc = "batch_progress" =>
                \A c \in SeqToSet(batch_of(runs[r].todo, runs[r].i)) :
                    /\ <<runs[r].job, c>> \in marked
                    /\ <<runs[r].job, c>> \in stored

\* C24 witness: after a crash that came between the upsert of a batch and
\* the mark of its last chunk, a resumed execution has upserted the unmarked
\* chunk again and marked it
C24_Witness ==
    /\ restarts > 0
    /\ \E r \in DOMAIN runs :
         /\ runs[r].kind = "thread"
         /\ runs[r].completed_chunk_ids # {}
         /\ runs[r].upserted # <<>>
         /\ runs[r].pc = "batch_progress"
         /\ runs[r].job \in DOMAIN jobs
         /\ Len(jobs[runs[r].job].completed_chunk_ids) = MaxChunks

\* C25: no step takes an id out of a job's completed list, whether it is a
\* cancel_job, a failing stage, a progress update, a resume_job or any other;
\* a step only adds to it, and only ids of chunks of the job's document
C25_CompletedSetOnlyGrows ==
    [][\A j \in DOMAIN jobs \cap DOMAIN jobs' :
          /\ SeqToSet(jobs[j].completed_chunk_ids) \subseteq SeqToSet(jobs'[j].completed_chunk_ids)
          /\ SeqToSet(jobs'[j].completed_chunk_ids)
                \subseteq SeqToSet(result_chunks(jobs[j].file_path))]_vars

\* C26: a step that leaves a job in status failed leaves its persisted
\* progress at the value it had before the step: a failure halts the
\* progress where it was, it does not reset or lower it
C26_FailureHaltsProgress ==
    [][\A j \in DOMAIN jobs \cap DOMAIN jobs' :
          jobs'[j].status = "failed" =>
              jobs'[j].progress_percent = jobs[j].progress_percent]_vars

\* execution r has not come to its end
Running(r) == runs[r].pc # "done"

\* C27: at most one pipeline execution is running for a job at any time:
\* resume_job starts none while an execution started by start_processing or
\* by an earlier resume_job is still running for that job
C27_OneRunPerJob ==
    \A r, q \in DOMAIN runs :
        (runs[r].job = runs[q].job /\ Running(r) /\ Running(q)) => r = q

\* C28: whenever a job's persisted status is completed, every chunk id of
\* its extraction result is in its completed list and, when graph creation
\* is enabled, every entity and every relationship of the result has been
\* sent to the graph store; so an execution that left a stage early on the
\* cancellation flag never ends as completed
C28_CompletedMeansAllDone ==
    \A j \in DOMAIN jobs :
        jobs[j].status = "completed" =>
            /\ SeqToSet(result_chunks(jobs[j].file_path))
                  \subseteq SeqToSet(jobs[j].completed_chunk_ids)
            /\ jobs[j].options.create_graph =>
                  /\ \A n \in 0..(result_entities(jobs[j].file_path) - 1) : <<j, "node", n>> \in sent
                  /\ \A n \in 0..(result_relationships(jobs[j].file_path) - 1) : <<j, "rel", n>> \in sent

\* a progress fraction: 0.0 .. 1.0
Fractions == 0..10000

\* C29: the progress of the record that get_job returns lies in 0.0 .. 1.0
\* and is the fraction last written to the job with update_job_progress;
\* so does the progress of every event a subscription has yielded and of its
\* initial snapshot, which is the fraction last written when the
\* subscription read the job
C29_ProgressIsTheFraction ==
    /\ \A j \in DOMAIN jobs :
          /\ get_job(jobs, j)[1].progress \in Fractions
          /\ get_job(jobs, j)[1].progress = written[j]
    /\ \A s \in DOMAIN subs :
          /\ subs[s].snapshot # <<>> =>
                /\ subs[s].snapshot[1].progress \in Fractions
                /\ subs[s].snapshot[1].progress = subs[s].at
          /\ \A k \in 1..Len(subs[s].yielded) : subs[s].yielded[k].progress \in Fractions

\* ---- delete_job: api/xml.py 328-355 ----
\* The handler runs on the event loop without suspending: cancel_job
\* (597-615), then AsyncXMLProcessor.delete_job (636-647), which hands on
\* whether the DELETE removed a row (rowcount > 0); false becomes a 404
delete_job(job_id) ==
    /\ phase = "serving" /\ loop = 0
    /\ LET flagged == job_id \in active_jobs
           J == IF flagged
                THEN update_job_progress(jobs, job_id, Some("cancelled"), Omitted,
                                         Omitted, Omitted, Omitted)
                ELSE jobs
           success == job_id \in DOMAIN J
       IN /\ cancelled_jobs' = IF flagged THEN cancelled_jobs \cup {job_id} ELSE cancelled_jobs
          /\ cancelHist' = IF flagged THEN [cancelHist EXCEPT ![job_id] = "cancelled"]
                           ELSE cancelHist
          /\ jobs' = _job_persistence_delete_job(J, job_id)
          /\ deleted' = IF success THEN [deleted EXCEPT ![job_id].n = @ + 1]
                        ELSE Since(job_id, "delete_job")
    /\ UNCHANGED <<uuid, active_jobs, runs, next_run, loop, phase, restarts, pool, xp,
                   interrupted, marked, stored, sent, written>>
    /\ unchanged_feed

\* the lifecycle of one job, with deletion requests for it
NextDelete ==
    \/ \E file_path \in Files, create_graph \in BOOLEAN :
         uuid = 0 /\ start_processing(file_path, create_graph)
    \/ \E r \in RunIds : PipelineStep(r)
    \/ \E r \in RunIds : handle_completion_task(r)
    \/ \E r \in RunIds : handle_completion(r)
    \/ \E job_id \in 1..uuid : cancel_job(job_id)
    \/ \E job_id \in 1..uuid :
         (\A q \in DOMAIN runs : runs[q].job # job_id) /\ resume_job(job_id)
    \/ \E job_id \in 1..uuid : delete_job(job_id)
    \/ Restart
    \/ initialize_job_persistence
    \/ lifespan

SpecDelete == Init /\ [][NextDelete]_vars

\* C30: once delete_job(job_id) has returned true, get_job(job_id) returns
\* nothing in every later state, whatever progress updates and chunk marks
\* the executions of the job still issue, and no later delete_job(job_id)
\* returns true
C30_DeletedStaysAbsent ==
    \A j \in JobIds :
        deleted[j].n > 0 => /\ get_job(jobs, j) = <<>>
                            /\ deleted[j].n = 1

\* a job was deleted while an execution of it was running; the execution has
\* since written a progress update and marked a chunk, and a second
\* delete_job has been answered
C30_Witness ==
    \E j \in JobIds :
        /\ deleted[j].n = 1
        /\ deleted[j].since = {"update_job_progress", "mark_chunk_completed", "delete_job"}
        /\ \E r \in DOMAIN runs : runs[r].job = j /\ runs[r].pc # "done"
====
